---- MODULE Spec2Model ----
(***************************************************************************)
(* The CSS selector builder of 05-objects-tasks.js: class                  *)
(* CSSSelectorBuilder, its fragment-adding methods, stringify, the static  *)
(* combine and the shared facade object cssSelectorBuilder.                *)
(*                                                                         *)
(* Builders are objects on a heap (builders); the three array fields of a  *)
(* builder are references into a heap of arrays (arrays), so that sharing  *)
(* of an array between a builder and the builders derived from it is part  *)
(* of the model.  A client repeatedly picks builders it holds and calls a  *)
(* method on them; a call either throws or returns a new object.           *)
(***************************************************************************)
EXTENDS Integers, Sequences, FiniteSets, TLC

VARIABLES builders, arrays, lineage, last

vars == <<builders, arrays, lineage, last>>

(* ------------------------------ bounds --------------------------------- *)

\* Number of builder objects a client that calls on any builder it holds
\* ever holds (the facade included).
MaxBuilders == 3

\* Number of builder objects of a client that writes one chained expression
\* (the facade included).
MaxChain == 4

(* ----------------------------- constants ------------------------------- *)

\* The order given to a builder made by combine.
CombinedOrder == 1000

\* The order of the facade object.
FacadeOrder == -1

cssSelectorOrder ==
  [element |-> 0, id |-> 1, classes |-> 2, attrs |-> 3,
   pseudoClass |-> 4, pseudoElement |-> 5]

\* The two errors, named after the functions that throw them.
NoError == "none"
ErrorMoreThanOne == "throwErrorMoreThanOne"
ErrorOrder == "throwErrorOrder"

\* Argument values the client passes; the empty string is a legal JS string.
Values == {"", "a", "b"}

\* Combinator tokens the client passes to combine.
Combinators == {" ", ">", "+", "~"}

(* ------------------------- strings and arrays -------------------------- *)

\* JS truthiness of a string: only the empty string is falsy.
Truthy(s) == s # ""

\* Array.prototype.join(sep).
RECURSIVE join(_, _)
join(arr, sep) ==
  IF arr = <<>> THEN ""
  ELSE IF Len(arr) = 1 THEN arr[1]
  ELSE arr[1] \o sep \o join(Tail(arr), sep)

\* An array interpolated into a template literal: Array.prototype.toString,
\* which is join(',').
ArrayToString(arr) == join(arr, ",")

\* [...arr, value]: a fresh array.
Spread(arr, value) == Append(arr, value)

(* ------------------------------ the class ------------------------------ *)

CSSSelectorBuilder(order, prefix, element_, id_, classes, attrs, pseudoClasses, psuedoElement) ==
  [order |-> order, prefix |-> prefix, elementValue |-> element_,
   idValue |-> id_, classes |-> classes, attrs |-> attrs,
   pseudoClasses |-> pseudoClasses, psuedoElementValue |-> psuedoElement]

\* stringify() of the object this, reading its arrays from the heap h.
stringifyIn(this, h) ==
  this.prefix
  \o this.elementValue
  \o (IF Truthy(this.idValue) THEN "#" ELSE "")
  \o this.idValue
  \o join([i \in DOMAIN h[this.classes] |-> "." \o h[this.classes][i]], "")
  \o ArrayToString([i \in DOMAIN h[this.attrs] |-> "[" \o h[this.attrs][i] \o "]"])
  \o join([i \in DOMAIN h[this.pseudoClasses] |-> ":" \o h[this.pseudoClasses][i]], "")
  \o (IF Truthy(this.psuedoElementValue) THEN "::" ELSE "")
  \o this.psuedoElementValue

stringify(this) == stringifyIn(this, arrays)

\* What a call does: it throws (error), or returns the object new; heap is
\* the heap of arrays when the call ends.
Throw(e) == [error |-> e, heap |-> arrays]
Return(new, heap) == [error |-> NoError, new |-> new, heap |-> heap]

\* The reference the next allocated array gets.
NewRef == Len(arrays) + 1

\* element with the order check made before the duplicate check.
element_orderFirst(this, value) ==
  IF this.order > cssSelectorOrder.element THEN Throw(ErrorOrder)
  ELSE IF Truthy(this.elementValue) THEN Throw(ErrorMoreThanOne)
  ELSE Return(CSSSelectorBuilder(cssSelectorOrder.element, this.prefix, value,
                this.idValue, this.classes, this.attrs, this.pseudoClasses,
                this.psuedoElementValue), arrays)

element(this, value) ==
  IF Truthy(this.elementValue) THEN Throw(ErrorMoreThanOne)
  ELSE IF this.order > cssSelectorOrder.element THEN Throw(ErrorOrder)
  ELSE Return(CSSSelectorBuilder(cssSelectorOrder.element, this.prefix, value,
                this.idValue, this.classes, this.attrs, this.pseudoClasses,
                this.psuedoElementValue), arrays)

\* id that constructs its result without the receiver's element name.
id_dropElement(this, value) ==
  IF Truthy(this.idValue) THEN Throw(ErrorMoreThanOne)
  ELSE IF this.order > cssSelectorOrder.id THEN Throw(ErrorOrder)
  ELSE Return(CSSSelectorBuilder(cssSelectorOrder.id, this.prefix,
                "", value, this.classes, this.attrs,
                this.pseudoClasses, this.psuedoElementValue), arrays)

id(this, value) ==
  IF Truthy(this.idValue) THEN Throw(ErrorMoreThanOne)
  ELSE IF this.order > cssSelectorOrder.id THEN Throw(ErrorOrder)
  ELSE Return(CSSSelectorBuilder(cssSelectorOrder.id, this.prefix,
                this.elementValue, value, this.classes, this.attrs,
                this.pseudoClasses, this.psuedoElementValue), arrays)

\* class with the order check off by one: a class is refused on a builder
\* whose order is the rank of class.
class_strictOrder(this, value) ==
  IF this.order >= cssSelectorOrder.classes THEN Throw(ErrorOrder)
  ELSE Return(CSSSelectorBuilder(cssSelectorOrder.classes, this.prefix,
                this.elementValue, this.idValue, NewRef, this.attrs,
                this.pseudoClasses, this.psuedoElementValue),
              Append(arrays, Spread(arrays[this.classes], value)))

\* class that pushes onto the receiver's array and shares it.
class_push(this, value) ==
  IF this.order > cssSelectorOrder.classes THEN Throw(ErrorOrder)
  ELSE Return(CSSSelectorBuilder(cssSelectorOrder.classes, this.prefix,
                this.elementValue, this.idValue, this.classes, this.attrs,
                this.pseudoClasses, this.psuedoElementValue),
              [arrays EXCEPT ![this.classes] = Append(@, value)])

\* class that skips a name the builder already has.
class_unique(this, value) ==
  IF this.order > cssSelectorOrder.classes THEN Throw(ErrorOrder)
  ELSE Return(CSSSelectorBuilder(cssSelectorOrder.classes, this.prefix,
                this.elementValue, this.idValue, NewRef, this.attrs,
                this.pseudoClasses, this.psuedoElementValue),
              Append(arrays,
                IF \E k \in DOMAIN arrays[this.classes] : arrays[this.classes][k] = value
                THEN arrays[this.classes]
                ELSE Spread(arrays[this.classes], value)))

class(this, value) ==
  IF this.order > cssSelectorOrder.classes THEN Throw(ErrorOrder)
  ELSE Return(CSSSelectorBuilder(cssSelectorOrder.classes, this.prefix,
                this.elementValue, this.idValue, NewRef, this.attrs,
                this.pseudoClasses, this.psuedoElementValue),
              Append(arrays, Spread(arrays[this.classes], value)))

\* attr that pushes onto the receiver's array before it checks the order.
attr_pushBeforeCheck(this, value) ==
  IF this.order > cssSelectorOrder.attrs
  THEN [error |-> ErrorOrder,
        heap |-> [arrays EXCEPT ![this.attrs] = Append(@, value)]]
  ELSE Return(CSSSelectorBuilder(cssSelectorOrder.attrs, this.prefix,
                this.elementValue, this.idValue, this.classes, NewRef,
                this.pseudoClasses, this.psuedoElementValue),
              Append(arrays, Spread(arrays[this.attrs], value)))

attr(this, value) ==
  IF this.order > cssSelectorOrder.attrs THEN Throw(ErrorOrder)
  ELSE Return(CSSSelectorBuilder(cssSelectorOrder.attrs, this.prefix,
                this.elementValue, this.idValue, this.classes, NewRef,
                this.pseudoClasses, this.psuedoElementValue),
              Append(arrays, Spread(arrays[this.attrs], value)))

\* pseudoClass with its order compared to the rank of pseudoElement.
pseudoClass_afterPseudoElement(this, value) ==
  IF this.order > cssSelectorOrder.pseudoElement THEN Throw(ErrorOrder)
  ELSE Return(CSSSelectorBuilder(cssSelectorOrder.pseudoClass, this.prefix,
                this.elementValue, this.idValue, this.classes, this.attrs,
                NewRef, this.psuedoElementValue),
              Append(arrays, Spread(arrays[this.pseudoClasses], value)))

pseudoClass(this, value) ==
  IF this.order > cssSelectorOrder.pseudoClass THEN Throw(ErrorOrder)
  ELSE Return(CSSSelectorBuilder(cssSelectorOrder.pseudoClass, this.prefix,
                this.elementValue, this.idValue, this.classes, this.attrs,
                NewRef, this.psuedoElementValue),
              Append(arrays, Spread(arrays[this.pseudoClasses], value)))

\* pseudoElement without the duplicate check.
pseudoElement_unchecked(this, value) ==
  Return(CSSSelectorBuilder(cssSelectorOrder.pseudoElement, this.prefix,
           this.elementValue, this.idValue, this.classes, this.attrs,
           this.pseudoClasses, value), arrays)

\* pseudoElement that constructs its result with an empty prefix.
pseudoElement_dropPrefix(this, value) ==
  IF Truthy(this.psuedoElementValue) THEN Throw(ErrorMoreThanOne)
  ELSE Return(CSSSelectorBuilder(cssSelectorOrder.pseudoElement, "",
                this.elementValue, this.idValue, this.classes, this.attrs,
                this.pseudoClasses, value), arrays)

pseudoElement(this, value) ==
  IF Truthy(this.psuedoElementValue) THEN Throw(ErrorMoreThanOne)
  ELSE Return(CSSSelectorBuilder(cssSelectorOrder.pseudoElement, this.prefix,
                this.elementValue, this.idValue, this.classes, this.attrs,
                this.pseudoClasses, value), arrays)

\* combine that joins the three strings with nothing around the combinator.
combine_noSpaces(selector1, combinator, selector2) ==
  Return(CSSSelectorBuilder(CombinedOrder,
           stringify(selector1) \o combinator \o stringify(selector2),
           "", "", NewRef, NewRef + 1, NewRef + 2, ""),
         arrays \o <<<<>>, <<>>, <<>>>>)

\* combine that constructs its result with the order of the facade.
combine_facadeOrder(selector1, combinator, selector2) ==
  Return(CSSSelectorBuilder(FacadeOrder,
           stringify(selector1) \o " " \o combinator \o " " \o stringify(selector2),
           "", "", NewRef, NewRef + 1, NewRef + 2, ""),
         arrays \o <<<<>>, <<>>, <<>>>>)

\* combine with a guard: a selector that is itself combined is refused.
combine_guarded(selector1, combinator, selector2) ==
  IF selector1.order = CombinedOrder \/ selector2.order = CombinedOrder
  THEN Throw(ErrorOrder)
  ELSE Return(CSSSelectorBuilder(CombinedOrder,
                stringify(selector1) \o " " \o combinator \o " " \o stringify(selector2),
                "", "", NewRef, NewRef + 1, NewRef + 2, ""),
              arrays \o <<<<>>, <<>>, <<>>>>)

combine(selector1, combinator, selector2) ==
  Return(CSSSelectorBuilder(CombinedOrder,
           stringify(selector1) \o " " \o combinator \o " " \o stringify(selector2),
           "", "", NewRef, NewRef + 1, NewRef + 2, ""),
         arrays \o <<<<>>, <<>>, <<>>>>)

\* The facade object and the three array literals it is constructed with.
cssSelectorBuilder == CSSSelectorBuilder(FacadeOrder, "", "", "", 1, 2, 3, "")

(* ------------------------------ the client ----------------------------- *)

Methods == {"element", "id", "class", "attr", "pseudoClass", "pseudoElement"}

\* Dispatch of a method call by name.
Invoke(op, this, value) ==
  CASE op = "element" -> element(this, value)
    [] op = "id" -> id(this, value)
    [] op = "class" -> class(this, value)
    [] op = "attr" -> attr(this, value)
    [] op = "pseudoClass" -> pseudoClass(this, value)
    [] op = "pseudoElement" -> pseudoElement(this, value)

\* The record of a call: the method, the receiver (for combine: selector1),
\* the argument, selector2 of combine, the error thrown, the object returned
\* (0 when none) and the string returned (stringify only).
CallRecord(op, recv, arg, other, error, result, text) ==
  [op |-> op, recv |-> recv, arg |-> arg, other |-> other, error |-> error,
   result |-> result, text |-> text]

\* The effect of a call whose outcome is r.  A throw returns no object and,
\* nothing in the file catching it, ends the script; a return puts the new
\* object on the heap.  parent is the builder the new one is derived from
\* (0 for a builder made by combine); limit bounds the number of objects.
Perform(op, recv, arg, other, parent, limit, r) ==
  /\ last.error = NoError
  /\ IF r.error # NoError
     THEN /\ last' = CallRecord(op, recv, arg, other, r.error, 0, "")
          /\ arrays' = r.heap
          /\ UNCHANGED <<builders, lineage>>
     ELSE /\ Len(builders) < limit
          /\ builders' = Append(builders, r.new)
          /\ arrays' = r.heap
          /\ lineage' = Append(lineage, [parent |-> parent, op |-> op, arg |-> arg])
          /\ last' = CallRecord(op, recv, arg, other, NoError, Len(builders) + 1, "")

Init ==
  /\ builders = <<cssSelectorBuilder>>
  /\ arrays = <<<<>>, <<>>, <<>>>>
  /\ lineage = <<[parent |-> 0, op |-> "new", arg |-> ""]>>
  /\ last = CallRecord("new", 0, "", 0, NoError, 1, "")

\* The calls, on a receiver taken from R.
ElementOn(R, limit) ==
  \E b \in R, v \in Values :
    Perform("element", b, v, 0, b, limit, element(builders[b], v))

IdOn(R, limit) ==
  \E b \in R, v \in Values :
    Perform("id", b, v, 0, b, limit, id(builders[b], v))

ClassOn(R, limit) ==
  \E b \in R, v \in Values :
    Perform("class", b, v, 0, b, limit, class(builders[b], v))

AttrOn(R, limit) ==
  \E b \in R, v \in Values :
    Perform("attr", b, v, 0, b, limit, attr(builders[b], v))

PseudoClassOn(R, limit) ==
  \E b \in R, v \in Values :
    Perform("pseudoClass", b, v, 0, b, limit, pseudoClass(builders[b], v))

PseudoElementOn(R, limit) ==
  \E b \in R, v \in Values :
    Perform("pseudoElement", b, v, 0, b, limit, pseudoElement(builders[b], v))

CombineOn(R, limit) ==
  \E s1 \in R, s2 \in R, c \in Combinators :
    Perform("combine", s1, c, s2, 0, limit, combine(builders[s1], c, builders[s2]))

\* stringify that memoizes its result in the receiver's prefix.
StringifyOn_memoize(R) ==
  \E b \in R :
    /\ last.error = NoError
    /\ last' = CallRecord("stringify", b, "", 0, NoError, 0, stringify(builders[b]))
    /\ builders' = [builders EXCEPT ![b].prefix = stringify(builders[b])]
    /\ UNCHANGED <<arrays, lineage>>

StringifyOn(R) ==
  \E b \in R :
    /\ last.error = NoError
    /\ last' = CallRecord("stringify", b, "", 0, NoError, 0, stringify(builders[b]))
    /\ UNCHANGED <<builders, arrays, lineage>>

(* A client that calls on any builder it holds: builder.x(..) kept in      *)
(* variables, branched from, and passed to combine.                        *)

Held == DOMAIN builders

Element == ElementOn(Held, MaxBuilders)
Id == IdOn(Held, MaxBuilders)
Class == ClassOn(Held, MaxBuilders)
Attr == AttrOn(Held, MaxBuilders)
PseudoClass == PseudoClassOn(Held, MaxBuilders)
PseudoElement == PseudoElementOn(Held, MaxBuilders)
Combine == CombineOn(Held, MaxBuilders)
Stringify == StringifyOn(Held)

Next ==
  \/ Element
  \/ Id
  \/ Class
  \/ Attr
  \/ PseudoClass
  \/ PseudoElement
  \/ Combine
  \/ Stringify

Spec == Init /\ [][Next]_vars

(* A client that writes one chained expression: every call is made on the  *)
(* object the previous call returned, combine with that object as both     *)
(* selectors.                                                              *)

Newest == {Len(builders)}

ChainElement == ElementOn(Newest, MaxChain)
ChainId == IdOn(Newest, MaxChain)
ChainClass == ClassOn(Newest, MaxChain)
ChainAttr == AttrOn(Newest, MaxChain)
ChainPseudoClass == PseudoClassOn(Newest, MaxChain)
ChainPseudoElement == PseudoElementOn(Newest, MaxChain)
ChainCombine == CombineOn(Newest, MaxChain)
ChainStringify == StringifyOn(Newest)

NextChain ==
  \/ ChainElement
  \/ ChainId
  \/ ChainClass
  \/ ChainAttr
  \/ ChainPseudoClass
  \/ ChainPseudoElement
  \/ ChainCombine
  \/ ChainStringify

SpecChain == Init /\ [][NextChain]_vars

(* ------------------------------ lineages ------------------------------- *)

\* The category rank of a method.
Rank(op) ==
  CASE op = "element" -> cssSelectorOrder.element
    [] op = "id" -> cssSelectorOrder.id
    [] op = "class" -> cssSelectorOrder.classes
    [] op = "attr" -> cssSelectorOrder.attrs
    [] op = "pseudoClass" -> cssSelectorOrder.pseudoClass
    [] op = "pseudoElement" -> cssSelectorOrder.pseudoElement

\* The field of a builder that a once-only method sets.
Field(op, this) ==
  CASE op = "element" -> this.elementValue
    [] op = "id" -> this.idValue
    [] op = "pseudoElement" -> this.psuedoElementValue

OnceOnly == {"element", "id", "pseudoElement"}
Repeatable == {"class", "attr", "pseudoClass"}

\* The array of a builder that a repeatable method appends to.
ArrayOf(op, this, h) ==
  CASE op = "class" -> h[this.classes]
    [] op = "attr" -> h[this.attrs]
    [] op = "pseudoClass" -> h[this.pseudoClasses]

\* The root of builder i's lineage: the facade or a builder made by combine.
RECURSIVE RootOf(_)
RootOf(i) == IF lineage[i].parent = 0 THEN i ELSE RootOf(lineage[i].parent)

\* The successful fragment-adding calls that lead from the root to builder i.
RECURSIVE Path(_)
Path(i) ==
  IF lineage[i].parent = 0 THEN <<>>
  ELSE Append(Path(lineage[i].parent), [op |-> lineage[i].op, arg |-> lineage[i].arg])

FromFacade(i) == RootOf(i) = 1
FromCombine(i) == lineage[RootOf(i)].op = "combine"

\* The arguments of the calls of method op in a path, in call order.
ArgsOf(path, op) ==
  LET sel == SelectSeq(path, LAMBDA c : c.op = op)
  IN  [k \in DOMAIN sel |-> sel[k].arg]

\* A path respects the category order, with element, id and pseudo-element
\* at most once.
InOrder(path) ==
  /\ \A k \in 1..(Len(path) - 1) : Rank(path[k].op) <= Rank(path[k + 1].op)
  /\ \A op \in OnceOnly : Len(ArgsOf(path, op)) <= 1

\* Concatenation of strings with no separator.
RECURSIVE Concat(_)
Concat(strs) == IF strs = <<>> THEN "" ELSE strs[1] \o Concat(Tail(strs))

\* The rendering the documentation gives for a path: each category with its
\* own punctuation, nothing between or inside categories.  A name counts as
\* set when it is not the empty string.
Render(path) ==
  LET e == Concat(ArgsOf(path, "element"))
      i == Concat(ArgsOf(path, "id"))
      c == ArgsOf(path, "class")
      a == ArgsOf(path, "attr")
      p == ArgsOf(path, "pseudoClass")
      q == Concat(ArgsOf(path, "pseudoElement"))
  IN  e
      \o (IF i # "" THEN "#" \o i ELSE "")
      \o Concat([k \in DOMAIN c |-> "." \o c[k]])
      \o Concat([k \in DOMAIN a |-> "[" \o a[k] \o "]"])
      \o Concat([k \in DOMAIN p |-> ":" \o p[k]])
      \o (IF q # "" THEN "::" \o q ELSE "")

\* The last call returned a builder (the construction of the facade counts).
\* A call that throws and a stringify call add no builder, so the builders of
\* every reachable state are those of a state in which Returned holds.
Returned == last.result # 0

(* ------------------------------- claims -------------------------------- *)

\* C1: every chain of calls from the facade that respects the category
\* order can be continued by any call that keeps the order, and stringify()
\* of its builder is the concatenation of its fragments, each with its own
\* punctuation and no separator between or inside categories.
C1_OrderedChainRendersWithoutSeparators ==
  \A i \in DOMAIN builders :
    (FromFacade(i) /\ InOrder(Path(i))) =>
      /\ stringify(builders[i]) = Render(Path(i))
      /\ \A op \in Methods, v \in Values :
           InOrder(Append(Path(i), [op |-> op, arg |-> v])) =>
             Invoke(op, builders[i], v).error = NoError

\* The highest category rank among the calls of a path.
RECURSIVE MaxRank(_)
MaxRank(path) ==
  IF path = <<>> THEN FacadeOrder
  ELSE LET m == MaxRank(Tail(path))
       IN  IF Rank(path[1].op) > m THEN Rank(path[1].op) ELSE m

\* C2 as stated: a call whose category rank is lower than the highest rank
\* committed on the lineage fails with the out-of-order error.
C2_LowerRankFailsWithOrderError ==
  \A i \in DOMAIN builders, op \in Methods, v \in Values :
    Rank(op) < MaxRank(Path(i)) =>
      Invoke(op, builders[i], v).error = ErrorOrder

\* C2 amended: a call whose category rank is lower than the highest rank
\* committed on the lineage fails: with the duplicate error when it is an
\* element (id) call and the element (id) name is already a non-empty
\* string, with the out-of-order error otherwise.
C2_LowerRankFailsDuplicateFirst ==
  Returned =>
  \A i \in DOMAIN builders, op \in Methods, v \in Values :
    Rank(op) < MaxRank(Path(i)) =>
      Invoke(op, builders[i], v).error =
        IF op \in OnceOnly /\ Field(op, builders[i]) # ""
        THEN ErrorMoreThanOne ELSE ErrorOrder

\* element('a').id('b').element(..) was called and threw the duplicate error.
C2_Witness ==
  /\ last.op = "element"
  /\ last.error = ErrorMoreThanOne
  /\ Path(last.recv) = <<[op |-> "element", arg |-> "a"], [op |-> "id", arg |-> "b"]>>

\* C3: once element (id, pseudoElement) has succeeded with a non-empty name
\* in a lineage, every further call of that method in the lineage throws the
\* duplicate error, whatever the order and the fragments added in between.
C3_SecondCallAfterNonEmptyNameIsDuplicate ==
  Returned =>
  \A i \in DOMAIN builders, op \in OnceOnly :
    (\E k \in DOMAIN Path(i) : Path(i)[k].op = op /\ Path(i)[k].arg # "") =>
      \A v \in Values : Invoke(op, builders[i], v).error = ErrorMoreThanOne

\* A second pseudoElement call threw the duplicate error, and so did an id
\* call made after another fragment had been added in between.
C3_Witness ==
  /\ last.error = ErrorMoreThanOne
  /\ last.op \in {"id", "pseudoElement"}
  /\ Len(Path(last.recv)) >= 2
  /\ Path(last.recv)[1].op = last.op
  /\ Path(last.recv)[2].op # last.op

\* C4: in every lineage at most one element call, at most one id call and
\* at most one pseudoElement call succeeds, whatever the names passed.
C4_AtMostOneSuccessPerLineage ==
  \A i \in DOMAIN builders, op \in OnceOnly : Len(ArgsOf(Path(i), op)) <= 1

\* C5: a builder's order is never lower than the order of the builder it was
\* derived from, and a call of a category ranked strictly below the
\* receiver's order is rejected.
C5_OrderNeverDecreases ==
  \A i \in DOMAIN builders :
    lineage[i].parent # 0 =>
      /\ builders[i].order >= builders[lineage[i].parent].order
      /\ Rank(lineage[i].op) >= builders[lineage[i].parent].order

\* What a client can observe of builder i: its fields, with the arrays read
\* through their references, and its string.
Observed(i) ==
  [order |-> builders[i].order,
   prefix |-> builders[i].prefix,
   elementValue |-> builders[i].elementValue,
   idValue |-> builders[i].idValue,
   classes |-> arrays[builders[i].classes],
   attrs |-> arrays[builders[i].attrs],
   pseudoClasses |-> arrays[builders[i].pseudoClasses],
   psuedoElementValue |-> builders[i].psuedoElementValue,
   text |-> stringify(builders[i])]

\* What the facade is constructed as.
FacadeObserved ==
  [order |-> FacadeOrder, prefix |-> "", elementValue |-> "", idValue |-> "",
   classes |-> <<>>, attrs |-> <<>>, pseudoClasses |-> <<>>,
   psuedoElementValue |-> "", text |-> ""]

\* C6: no call, successful or rejected, changes a builder that exists: its
\* fields, the contents of its arrays and its string stay as they were, a
\* successful fragment-adding call returns a new object, and the facade
\* stays empty with an order below 0.
C6_ReceiverNeverMutated ==
  [][ /\ \A i \in DOMAIN builders :
          i \in DOMAIN builders' /\ Observed(i)' = Observed(i)
      /\ (last'.op \in Methods /\ last'.error = NoError) =>
          (last'.result = Len(builders) + 1 /\ Len(builders') = Len(builders) + 1)
      /\ Observed(1)' = FacadeObserved
      /\ builders'[1].order < 0 ]_vars

\* Two builders branched from the same builder by two class calls, with
\* different fragments.
C6_Witness ==
  \E i \in DOMAIN builders, j \in DOMAIN builders :
    /\ i # j
    /\ lineage[i].parent = lineage[j].parent
    /\ lineage[i].parent # 0
    /\ lineage[i].op = "class"
    /\ lineage[j].op = "class"
    /\ stringify(builders[i]) # stringify(builders[j])

\* C7: combine of any two builders with any combinator returns a builder
\* whose string is the left string, a space, the combinator, a space and the
\* right string, and whose fields other than the prefix are empty.  Checked
\* after every call that returned a builder, for the pairs that include it
\* (the other pairs were there before the call), and on the builder a
\* combine call returned.
C7_CombineJoinsWithSpaces ==
  /\ Returned =>
       \A l \in DOMAIN builders, r \in DOMAIN builders, c \in Combinators :
         (l = last.result \/ r = last.result) =>
           LET res == combine(builders[l], c, builders[r])
           IN  /\ res.error = NoError
               /\ stringifyIn(res.new, res.heap) =
                    stringify(builders[l]) \o " " \o c \o " " \o stringify(builders[r])
               /\ res.new.elementValue = ""
               /\ res.new.idValue = ""
               /\ res.new.psuedoElementValue = ""
               /\ res.heap[res.new.classes] = <<>>
               /\ res.heap[res.new.attrs] = <<>>
               /\ res.heap[res.new.pseudoClasses] = <<>>
  /\ (last.op = "combine" /\ last.error = NoError) =>
       /\ stringify(builders[last.result]) =
            stringify(builders[last.recv]) \o " " \o last.arg \o " "
              \o stringify(builders[last.other])
       /\ builders[last.result].prefix = stringify(builders[last.result])

\* combine was called with the descendant combinator on a selector that is
\* itself a combined selector of builders with fragments.
C7_Witness ==
  /\ last.op = "combine"
  /\ last.error = NoError
  /\ last.arg = " "
  /\ lineage[last.recv].op = "combine"
  /\ Len(stringify(builders[last.recv])) > 3

\* C8: a successful class, attr or pseudoClass call appends its argument at
\* the end of its array and keeps the earlier entries in order, also when
\* the value is already there; the duplicate error is never thrown by these
\* methods, and class('a').class('b').class('a') stringifies to '.a.b.a'.
C8_RepeatableAppendsInOrder ==
  Returned =>
  /\ \A i \in DOMAIN builders :
       (lineage[i].parent # 0 /\ lineage[i].op \in Repeatable) =>
         ArrayOf(lineage[i].op, builders[i], arrays) =
           Append(ArrayOf(lineage[i].op, builders[lineage[i].parent], arrays),
                  lineage[i].arg)
  /\ \A i \in DOMAIN builders, op \in Repeatable, v \in Values :
       LET res == Invoke(op, builders[i], v)
       IN  /\ res.error # ErrorMoreThanOne
           /\ builders[i].order <= Rank(op) =>
                /\ res.error = NoError
                /\ ArrayOf(op, res.new, res.heap) =
                     Append(ArrayOf(op, builders[i], arrays), v)
  /\ \A i \in DOMAIN builders :
       (FromFacade(i) /\ Path(i) = <<[op |-> "class", arg |-> "a"],
                                     [op |-> "class", arg |-> "b"],
                                     [op |-> "class", arg |-> "a"]>>) =>
         stringify(builders[i]) = ".a.b.a"

\* class('a').class('b').class('a') was called on the facade and succeeded.
C8_Witness ==
  /\ last.op = "class"
  /\ last.error = NoError
  /\ FromFacade(last.result)
  /\ Path(last.result) = <<[op |-> "class", arg |-> "a"],
                           [op |-> "class", arg |-> "b"],
                           [op |-> "class", arg |-> "a"]>>

\* C9: on a builder made by combine, and on every builder derived from it,
\* element, id, class, attr and pseudoClass throw the out-of-order error.
C9_CombinedRejectsFragments ==
  Returned =>
  \A i \in DOMAIN builders :
    FromCombine(i) =>
      \A op \in Methods \ {"pseudoElement"}, v \in Values :
        Invoke(op, builders[i], v).error = ErrorOrder

\* A class call on a builder derived from a combined builder threw the
\* out-of-order error.
C9_Witness ==
  /\ last.op = "class"
  /\ last.error = ErrorOrder
  /\ FromCombine(last.recv)
  /\ lineage[last.recv].parent # 0

\* The outcome (accepted, or the error) of every call on every builder.
Accepts ==
  [i \in DOMAIN builders |->
    [op \in Methods |-> [v \in Values |-> Invoke(op, builders[i], v).error]]]

\* C10: a call that throws returns no object and leaves every builder as it
\* was: the same fields, the same string, and the same outcome for every
\* call that can be made on it.
C10_RejectedCallChangesNothing ==
  [][ last'.error # NoError =>
        /\ last'.result = 0
        /\ builders' = builders
        /\ \A i \in DOMAIN builders : Observed(i)' = Observed(i)
        /\ Accepts' = Accepts ]_vars

\* An attr call threw on a receiver that has attributes.
C10_Witness ==
  /\ last.op = "attr"
  /\ last.error # NoError
  /\ arrays[builders[last.recv].attrs] # <<>>

\* C11: while the script runs, stringify() can be called on every builder
\* (the facade, a partly built one, one with a pseudo-element, a combined
\* one); the call throws nothing and changes no builder and no array, and
\* the string it returned is the string a further call on the same builder
\* returns.
C11_StringifyAlwaysCallableAndPure ==
  /\ [](last.error = NoError =>
         \A b \in DOMAIN builders : ENABLED StringifyOn({b}))
  /\ [](last.op = "stringify" =>
         /\ last.error = NoError
         /\ last.text = stringify(builders[last.recv]))
  /\ [][last'.op = "stringify" =>
         /\ builders' = builders
         /\ arrays' = arrays
         /\ \A i \in DOMAIN builders : Observed(i)' = Observed(i)]_vars

\* stringify() was called on a builder derived from a combined builder by
\* pseudoElement, and returned the prefix followed by the pseudo-element.
C11_Witness ==
  /\ last.op = "stringify"
  /\ FromCombine(last.recv)
  /\ builders[last.recv].psuedoElementValue # ""
  /\ last.text = builders[last.recv].prefix \o "::" \o builders[last.recv].psuedoElementValue

\* Every name passed on the way from the root to builder i is non-empty.
NonEmptyNames(i) == \A k \in DOMAIN Path(i) : Path(i)[k].arg # ""

\* C12: on a builder reached from the facade by calls with non-empty names,
\* a call of a category is accepted exactly when the builder's order is at
\* most the category's rank and, for element, id and pseudoElement, no call
\* of that method was made before in the lineage; the builder an accepted
\* call returns has the category's rank as its order.
C12_AcceptedIffOrderAndUnset ==
  Returned =>
  \A i \in DOMAIN builders :
    (FromFacade(i) /\ NonEmptyNames(i)) =>
      \A op \in Methods, v \in Values :
        LET res == Invoke(op, builders[i], v)
        IN  /\ (res.error = NoError) <=>
                 /\ builders[i].order <= Rank(op)
                 /\ op \in OnceOnly =>
                      /\ Field(op, builders[i]) = ""
                      /\ ArgsOf(Path(i), op) = <<>>
            /\ res.error = NoError => res.new.order = Rank(op)

\* A pseudoClass call was accepted on a builder whose order already was the
\* rank of pseudoClass, and returned a builder of that order.
C12_Witness ==
  /\ last.op = "pseudoClass"
  /\ last.error = NoError
  /\ FromFacade(last.recv)
  /\ NonEmptyNames(last.result)
  /\ builders[last.recv].order = cssSelectorOrder.pseudoClass
  /\ builders[last.result].order = cssSelectorOrder.pseudoClass

\* The field of a builder that a method writes.
OwnField(op) ==
  CASE op = "element" -> "elementValue"
    [] op = "id" -> "idValue"
    [] op = "class" -> "classes"
    [] op = "attr" -> "attrs"
    [] op = "pseudoClass" -> "pseudoClasses"
    [] op = "pseudoElement" -> "psuedoElementValue"

\* The prefix and the fields of the six categories.
CategoryFields ==
  {"prefix", "elementValue", "idValue", "classes", "attrs", "pseudoClasses",
   "psuedoElementValue"}

\* C13: the builder a successful fragment-adding call returned differs from
\* the receiver only in the field of the call's category and in the order:
\* the prefix and the fields of the five other categories are the receiver's.
C13_OnlyOwnFieldAndOrderChange ==
  Returned =>
  \A i \in DOMAIN builders :
    lineage[i].parent # 0 =>
      /\ \A f \in CategoryFields \ {OwnField(lineage[i].op)} :
           Observed(i)[f] = Observed(lineage[i].parent)[f]
      /\ builders[i].order = Rank(lineage[i].op)
      /\ lineage[i].op \in OnceOnly =>
           Field(lineage[i].op, builders[i]) = lineage[i].arg

\* id(..) succeeded on a builder that has an element name.
C13_Witness ==
  /\ last.op = "id"
  /\ last.error = NoError
  /\ builders[last.recv].elementValue # ""
  /\ builders[last.result].elementValue = builders[last.recv].elementValue
  /\ builders[last.result].idValue = last.arg

\* C14: the prefix is the empty string in every builder reached from the
\* facade by fragment-adding calls; only combine sets it, to a non-empty
\* string, and every builder derived from a combined builder has the prefix
\* of that combined builder.
C14_PrefixSetOnlyByCombine ==
  Returned =>
  \A i \in DOMAIN builders :
    /\ FromFacade(i) => builders[i].prefix = ""
    /\ FromCombine(i) =>
         /\ builders[i].prefix = builders[RootOf(i)].prefix
         /\ builders[i].prefix # ""
    /\ FromFacade(i) \/ FromCombine(i)

\* pseudoElement(..) succeeded on a combined builder and the builder it
\* returned has the combined builder's prefix.
C14_Witness ==
  /\ last.op = "pseudoElement"
  /\ last.error = NoError
  /\ lineage[last.recv].op = "combine"
  /\ builders[last.result].prefix = builders[last.recv].prefix
  /\ Len(builders[last.result].prefix) > 3

\* C15: combine throws for no pair of builders and no combinator (the
\* facade and combined builders included); a combine call leaves both
\* selectors as they were; and the string of a combined builder never
\* changes afterwards, whatever is later called on the builders it was made
\* from.
C15_CombineUnguardedSnapshot ==
  /\ [](Returned =>
         \A s1 \in DOMAIN builders, s2 \in DOMAIN builders, c \in Combinators :
           combine(builders[s1], c, builders[s2]).error = NoError)
  /\ [][last'.op = "combine" =>
         /\ last'.error = NoError
         /\ last'.result = Len(builders) + 1
         /\ \A s \in DOMAIN builders :
              s \in {last'.recv, last'.other} => Observed(s)' = Observed(s)]_vars
  /\ [][\A k \in DOMAIN builders :
          lineage[k].op = "combine" =>
            stringify(builders[k])' = stringify(builders[k])]_vars

\* The facade was combined with itself, and afterwards a fragment-adding
\* call on the facade returned a builder with a fragment; the combined
\* builder's string still is that of two empty selectors.
C15_Witness ==
  /\ Len(builders) = 3
  /\ lineage[2].op = "combine"
  /\ last.op \in Methods
  /\ last.error = NoError
  /\ last.recv = 1
  /\ last.result = 3
  /\ stringify(builders[3]) # ""
  /\ stringify(builders[2]) = " " \o lineage[2].arg \o " "

\* combine that keeps the right selector's fields in its result instead of
\* rendering the right selector into the prefix.
combineIn_keepRight(selector1, combinator, selector2, h) ==
  Return(CSSSelectorBuilder(CombinedOrder,
           stringifyIn(selector1, h) \o " " \o combinator \o " ",
           selector2.elementValue, selector2.idValue, selector2.classes,
           selector2.attrs, selector2.pseudoClasses, selector2.psuedoElementValue),
         h)

\* combine called when the heap of arrays is h: the call the client makes on
\* objects that an earlier combine call has just returned.
combineIn(selector1, combinator, selector2, h) ==
  Return(CSSSelectorBuilder(CombinedOrder,
           stringifyIn(selector1, h) \o " " \o combinator \o " " \o stringifyIn(selector2, h),
           "", "", Len(h) + 1, Len(h) + 2, Len(h) + 3, ""),
         h \o <<<<>>, <<>>, <<>>>>)

\* combine(combine(a, c1, b), c2, d).stringify()
LeftNested(a, c1, b, c2, d) ==
  LET x == combineIn(a, c1, b, arrays)
      y == combineIn(x.new, c2, d, x.heap)
  IN  stringifyIn(y.new, y.heap)

\* combine(a, c1, combine(b, c2, d)).stringify()
RightNested(a, c1, b, c2, d) ==
  LET z == combineIn(b, c2, d, arrays)
      w == combineIn(a, c1, z.new, z.heap)
  IN  stringifyIn(w.new, w.heap)

\* C16: for all builders a, b, d and combinators c1, c2 the two nestings of
\* combine give the same string.  Checked after every call that returned a
\* builder, for the triples that include it (the other triples were there
\* before the call); combineIn on the current heap is the combine the
\* client calls.
C16_NestedCombineAssociative ==
  Returned =>
  \A a \in DOMAIN builders, b \in DOMAIN builders, d \in DOMAIN builders :
    last.result \in {a, b, d} =>
      /\ \A c1 \in Combinators, c2 \in Combinators :
           LeftNested(builders[a], c1, builders[b], c2, builders[d]) =
             RightNested(builders[a], c1, builders[b], c2, builders[d])
      /\ \A c \in Combinators :
           combineIn(builders[a], c, builders[b], arrays) =
             combine(builders[a], c, builders[b])

\* combine was called with a combined selector on the right and another
\* combinator than the one that selector was made with, and its string is
\* that of the other nesting.
C16_Witness ==
  /\ last.op = "combine"
  /\ last.error = NoError
  /\ lineage[last.other].op = "combine"
  /\ lineage[last.recv].op # "combine"
  /\ last.arg # lineage[last.other].arg
  /\ stringify(builders[last.result]) =
       LeftNested(builders[last.recv], last.arg, builders[1],
                  lineage[last.other].arg, builders[1])

\* pseudoElement succeeded with a non-empty name on the way to builder i.
Closed(i) ==
  \E k \in DOMAIN Path(i) :
    Path(i)[k].op = "pseudoElement" /\ Path(i)[k].arg # ""

\* C17: in a lineage that starts at the facade, once pseudoElement has
\* succeeded with a non-empty name every fragment-adding call on the builder
\* is rejected, so that call is the last of the lineage and the string ends
\* with '::' and the name.
C17_ClosedAfterPseudoElement ==
  Returned =>
  \A i \in DOMAIN builders :
    (FromFacade(i) /\ Closed(i)) =>
      /\ \A op \in Methods, v \in Values :
           Invoke(op, builders[i], v).error # NoError
      /\ lineage[i].op = "pseudoElement"
      /\ \A j \in DOMAIN builders : lineage[j].parent # i
      /\ stringify(builders[i]) =
           stringify(builders[lineage[i].parent]) \o "::" \o lineage[i].arg

\* A pseudoClass call on a builder of the facade's lineage that has a
\* pseudo-element threw the out-of-order error.
C17_Witness ==
  /\ last.op = "pseudoClass"
  /\ last.error = ErrorOrder
  /\ FromFacade(last.recv)
  /\ Closed(last.recv)
  /\ Len(Path(last.recv)) >= 2

====
